---- MODULE Spec2Model ----
(***************************************************************************)
(* Verification model of the DIAGNOVERA complex-plane diagnostic core:     *)
(*   - AngleAllocator.get_angle       (backend/diagnovera_process_a.py)    *)
(*   - AngleAllocator.allocate_angle  (cloud-functions.py)                 *)
(*   - ProcessAOrchestrator.process_batch (asyncio tasks sharing one       *)
(*     allocator)                                                          *)
(*   - ComplexPlaneMapper / DiagnosticEngine (gcloud-backend-main.py)      *)
(*                                                                         *)
(* Angles are kept in whole degrees (np.pi/180 is one unit); magnitudes,   *)
(* weights and scores are exact fractions <<n, d>> with d > 0.  The names  *)
(* the allocators are asked for and the disease identifiers are natural    *)
(* numbers; their numeric order stands for the order of the identifiers.   *)
(***************************************************************************)
EXTENDS Integers, Sequences, FiniteSets, TLC

VARIABLES
    angle_map,          \* AngleAllocator.angle_map (process A): key -> angle
    subdomain_offsets,  \* AngleAllocator.subdomain_offsets: domain_key -> next offset
    ga_call,            \* the last get_angle call and what it found
    ga_ret,             \* the value the last get_angle call returned
    allocated_angles,   \* AngleAllocator.allocated_angles (cloud functions)
    aa_call,            \* the last allocate_angle call and what it found
    aa_ret,             \* the value the last allocate_angle call returned
    vitals_data,        \* process_batch: record -> the vital signs its literature data names
    task_pc,            \* process_batch: record -> where its process_single_icd task stands
    task_angles,        \* process_batch: record -> the angle get_angle returned per name
    patient_data,       \* scoring one pair: the patient's complex-plane data, domain -> list
    reference,          \* scoring one pair: one reference profile of the library
    pair_scores,        \* scoring one pair: bayesian, kuramoto, markov and combined
    reference_library,  \* DiagnosticEngine.reference_library, in the order it was loaded
    encounter_data,     \* the encounter handed to analyze_patient_encounter
    analysis,           \* what analyze_patient_encounter returned
    utcnow,             \* the clock datetime.utcnow() reads
    previous_analysis,     \* what the analyze_patient_encounter call before the last returned
    map_domain,         \* map_to_complex_plane: the domain argument
    map_variables,      \* map_to_complex_plane: the items of the variables argument
    complex_data,       \* map_to_complex_plane: the list returned
    disease_library,    \* medical-diagnostic-system DiagnosticEngine.disease_library
    bayesian_analyzer,  \* medical-diagnostic-system DiagnosticEngine.bayesian
    raw_patient_data,   \* the patient_data given to process_patient_encounter
    patient_encounter,  \* what process_patient_encounter returned or raised
    diagnosis,          \* what diagnose returned or raised
    ba_library,         \* the disease_library given to BayesianAnalyzer(...)
    ba_analyzer,        \* the BayesianAnalyzer object, <<>> before its construction
    patient_vector,     \* patient_encounter.get_feature_vector()
    posteriors,         \* what get_posterior_probabilities returned
    pb_batch,           \* process_batch: the batch, a list of ICD records
    pb_tasks,           \* process_batch: where each process_single_icd coroutine stands
    pb_results,         \* process_batch: results of asyncio.gather, <<>> before it returned
    pb_i,               \* process_batch: the index of the loop over results
    pb_pc,              \* process_batch: gathering, storing, returned or raised
    firestore_docs,     \* icd10_expanded_reference_library: per record, the writes that succeeded
    ps_messages,        \* the Pub/Sub messages delivered: encounter_id and whether the payload decodes
    ps_pc,              \* process_pubsub_message: per message, the statement reached
    ps_raised,          \* process_pubsub_message: per message, the step that raised, "" if none
    ps_completed,       \* per message: its update to status completed was applied
    ps_acks,            \* per message: the calls of message.ack()
    ps_nacks,           \* per message: the calls of message.nack()
    encounter_docs      \* the documents of the collection encounters: status and results

tableVars == <<angle_map, subdomain_offsets>>
callVars == <<ga_call, ga_ret>>
aaVars == <<allocated_angles, aa_call, aa_ret>>
batchVars == <<vitals_data, task_pc, task_angles>>
pairVars == <<patient_data, reference, pair_scores>>
rankVars == <<reference_library, encounter_data, analysis, utcnow, previous_analysis>>
mapVars == <<map_domain, map_variables, complex_data>>
mdVars == <<disease_library, bayesian_analyzer, raw_patient_data, patient_encounter, diagnosis>>
baVars == <<ba_library, ba_analyzer, patient_vector, posteriors>>
storeVars == <<pb_batch, pb_tasks, pb_results, pb_i, pb_pc, firestore_docs>>
psVars == <<ps_messages, ps_pc, ps_raised, ps_completed, ps_acks, ps_nacks, encounter_docs>>
vars == <<angle_map, subdomain_offsets, ga_call, ga_ret,
          allocated_angles, aa_call, aa_ret,
          vitals_data, task_pc, task_angles,
          patient_data, reference, pair_scores,
          reference_library, encounter_data, analysis, utcnow, previous_analysis,
          map_domain, map_variables, complex_data,
          disease_library, bayesian_analyzer, raw_patient_data, patient_encounter, diagnosis,
          ba_library, ba_analyzer, patient_vector, posteriors,
          pb_batch, pb_tasks, pb_results, pb_i, pb_pc, firestore_docs,
          ps_messages, ps_pc, ps_raised, ps_completed, ps_acks, ps_nacks, encounter_docs>>

(***************************************************************************)
(* Bounds of the model.                                                    *)
(***************************************************************************)
\* distinct variable names requested under ('subjective', 'demographics')
MaxDeepNames == 61
\* distinct variable names requested under every other (domain, subdomain)
MaxNames == 2
\* distinct variable names requested per domain from allocate_angle
MaxAllocNames == 13
\* a repeated request names the first name of its site or one of the
\* MaxRecent names allocated last there
MaxRecent == 2

(***************************************************************************)
(* AngleAllocator of process A.                                            *)
(***************************************************************************)
None == "None"

\* self.domain_base_angles, in degrees (np.pi/3 = 60 degrees)
domain_base_angles ==
    [subjective |-> 0, vitals |-> 60, examination |-> 120,
     laboratory |-> 180, imaging |-> 240, procedures_pathology |-> 300]

\* the increment of a subdomain offset: np.pi/180, one degree
AngleIncrement == 1

\* the width of a domain's sector: consecutive base angles are np.pi/3 apart
SectorSize == 60

\* key = f"{domain}:{subdomain}:{variable}" (None is formatted as "None")
Key(domain, subdomain, variable) == <<domain, subdomain, variable>>

\* domain_key = f"{domain}:{subdomain}" if subdomain else domain
DomainKey(domain, subdomain) ==
    IF subdomain = None THEN <<domain>> ELSE <<domain, subdomain>>

\* offset = self.subdomain_offsets[domain_key], after the default of 0
Offset(so, domain, subdomain) ==
    IF DomainKey(domain, subdomain) \in DOMAIN so
        THEN so[DomainKey(domain, subdomain)] ELSE 0

\* the table without the membership test: every call allocates
GA_angle_map_nocheck(am, so, domain, subdomain, variable) ==
    [k \in DOMAIN am \cup {Key(domain, subdomain, variable)} |->
        IF k = Key(domain, subdomain, variable)
            THEN domain_base_angles[domain] + Offset(so, domain, subdomain)
            ELSE am[k]]

\* self.angle_map after get_angle(domain, subdomain, variable)
GA_angle_map(am, so, domain, subdomain, variable) ==
    IF Key(domain, subdomain, variable) \in DOMAIN am
        THEN am
        ELSE [k \in DOMAIN am \cup {Key(domain, subdomain, variable)} |->
                IF k = Key(domain, subdomain, variable)
                    THEN domain_base_angles[domain] + Offset(so, domain, subdomain)
                    ELSE am[k]]

\* the offsets when the increment of a new key is lost
GA_subdomain_offsets_lost(am, so, domain, subdomain, variable) ==
    [dk \in DOMAIN so \cup {DomainKey(domain, subdomain)} |->
        IF dk = DomainKey(domain, subdomain)
            THEN Offset(so, domain, subdomain)
            ELSE so[dk]]

\* self.subdomain_offsets after get_angle(domain, subdomain, variable)
GA_subdomain_offsets(am, so, domain, subdomain, variable) ==
    IF Key(domain, subdomain, variable) \in DOMAIN am
        THEN so
        ELSE [dk \in DOMAIN so \cup {DomainKey(domain, subdomain)} |->
                IF dk = DomainKey(domain, subdomain)
                    THEN Offset(so, domain, subdomain) + AngleIncrement
                    ELSE so[dk]]

\* the (domain, subdomain) pairs process A calls get_angle with
GA_Sites ==
    {<<"subjective", "demographics">>, <<"subjective", "chief_complaints">>,
     <<"vitals", None>>}

\* how many distinct names the model requests at a call site
GA_NameBound(site) ==
    IF site = <<"subjective", "demographics">> THEN MaxDeepNames ELSE MaxNames

\* the keys of the table that belong to a call site / to a domain
GA_KeysOfSite(am, site) == {k \in DOMAIN am : k[1] = site[1] /\ k[2] = site[2]}
GA_KeysOfDomain(am, domain) == {k \in DOMAIN am : k[1] = domain}

\* the names the model requests at a site that holds n names: the next new
\* name, the first name and the names allocated last
GA_Requested(site, n) ==
    {v \in 1..GA_NameBound(site) : v <= n + 1 /\ (v = 1 \/ v + MaxRecent > n)}

\* angle = self.angle_allocator.get_angle(domain, subdomain, variable).
\* Names are interchangeable, so the n-th new name of a site is the name n.
GetAngle(site, variable) ==
    /\ variable \in GA_Requested(site, Cardinality(GA_KeysOfSite(angle_map, site)))
    /\ angle_map' = GA_angle_map(angle_map, subdomain_offsets,
                                 site[1], site[2], variable)
    /\ subdomain_offsets' = GA_subdomain_offsets(angle_map, subdomain_offsets,
                                                 site[1], site[2], variable)
    /\ ga_call' = [called |-> TRUE,
                   key |-> Key(site[1], site[2], variable),
                   fresh |-> Key(site[1], site[2], variable) \notin DOMAIN angle_map]
    /\ ga_ret' = angle_map'[Key(site[1], site[2], variable)]
    /\ UNCHANGED <<psVars, storeVars, baVars, aaVars, batchVars, pairVars, rankVars, mapVars, mdVars>>

NoCall == [called |-> FALSE, key |-> <<>>, fresh |-> FALSE]

NoAllocCall == [called |-> FALSE, key |-> <<>>, fresh |-> FALSE, full |-> FALSE,
                raised |-> ""]

\* AngleAllocator.__init__ of process A, before any call
IdleGetAngle ==
    /\ angle_map = <<>>
    /\ subdomain_offsets = <<>>
    /\ ga_call = NoCall
    /\ ga_ret = 0

\* AngleAllocator.__init__ of the cloud function, before any call
IdleAllocate ==
    /\ allocated_angles = <<>>
    /\ aa_call = NoAllocCall
    /\ aa_ret = 0

\* no batch is being processed
IdleBatch ==
    /\ vitals_data = <<>>
    /\ task_pc = <<>>
    /\ task_angles = <<>>

\* no pair is being scored
IdlePair ==
    /\ patient_data = <<>>
    /\ reference = <<>>
    /\ pair_scores = <<>>

\* no encounter is being analysed
IdleRank ==
    /\ reference_library = <<>>
    /\ encounter_data = <<>>
    /\ analysis = <<>>
    /\ utcnow = 0
    /\ previous_analysis = <<>>

\* no list of variables is being mapped
IdleMap ==
    /\ map_domain = ""
    /\ map_variables = <<>>
    /\ complex_data = <<>>

\* no medical-diagnostic-system engine is in use
IdleDiagnose ==
    /\ disease_library = <<>>
    /\ bayesian_analyzer = None
    /\ raw_patient_data = <<>>
    /\ patient_encounter = <<>>
    /\ diagnosis = <<>>

IdleBayes ==
    /\ ba_library = <<>>
    /\ ba_analyzer = <<>>
    /\ patient_vector = <<>>
    /\ posteriors = <<>>

IdleStore ==
    /\ pb_batch = <<>>
    /\ pb_tasks = <<>>
    /\ pb_results = <<>>
    /\ pb_i = 0
    /\ pb_pc = ""
    /\ firestore_docs = <<>>

IdlePubSub ==
    /\ ps_messages = <<>>
    /\ ps_pc = <<>>
    /\ ps_raised = <<>>
    /\ ps_completed = <<>>
    /\ ps_acks = <<>>
    /\ ps_nacks = <<>>
    /\ encounter_docs = <<>>

InitGetAngle == IdleGetAngle /\ IdleAllocate /\ IdleBatch /\ IdlePair /\ IdleRank /\ IdleMap /\ IdleDiagnose /\ IdleBayes /\ IdleStore /\ IdlePubSub

NextGetAngle == \E site \in GA_Sites : \E variable \in 1..MaxDeepNames :
                    GetAngle(site, variable)

SpecGetAngle == InitGetAngle /\ [][NextGetAngle]_vars

(***************************************************************************)
(* AngleAllocator of the library-builder cloud function.                   *)
(***************************************************************************)
\* domain_offset.get(domain, 0): every listed domain has offset 0
domain_offset(domain) == 0

\* angle = ... + (current_count * 30): 30-degree increments
AllocIncrement == 30

\* self.allocated_angles[key] = angle % 360
FullCircle == 360

\* key = f"{domain}:{variable}"
AllocKey(domain, variable) == <<domain, variable>>

\* current_count = sum(1 for k in self.allocated_angles if k.startswith(f"{domain}:"))
current_count(aa, domain) == Cardinality({k \in DOMAIN aa : k[1] = domain})

\* (domain_offset.get(domain, 0) + (current_count * 30)) % 360
AA_new_angle(aa, domain) ==
    (domain_offset(domain) + current_count(aa, domain) * AllocIncrement) % FullCircle

\* self.allocated_angles after allocate_angle(domain, variable)
AA_allocated_angles(aa, domain, variable) ==
    IF AllocKey(domain, variable) \in DOMAIN aa
        THEN aa
        ELSE [k \in DOMAIN aa \cup {AllocKey(domain, variable)} |->
                IF k = AllocKey(domain, variable)
                    THEN AA_new_angle(aa, domain) ELSE aa[k]]

\* the domains the model calls allocate_angle with
AA_Domains == {"subjective", "vitals"}

\* the number of distinct angles allocate_angle can give the keys of a domain
AA_Capacity == FullCircle \div AllocIncrement

\* the names the model requests in a domain that holds n names
AA_Requested(n) ==
    {v \in 1..MaxAllocNames : v <= n + 1 /\ (v = 1 \/ v + MaxRecent > n)}

\* allocate_angle(domain, variable); it has no raise statement, so the call
\* record's "raised" is always the empty string.
AllocateAngle(domain, variable) ==
    /\ variable \in AA_Requested(current_count(allocated_angles, domain))
    /\ allocated_angles' = AA_allocated_angles(allocated_angles, domain, variable)
    /\ aa_call' = [called |-> TRUE,
                   key |-> AllocKey(domain, variable),
                   fresh |-> AllocKey(domain, variable) \notin DOMAIN allocated_angles,
                   full |-> current_count(allocated_angles, domain) >= AA_Capacity,
                   raised |-> ""]
    /\ aa_ret' = allocated_angles'[AllocKey(domain, variable)]
    /\ UNCHANGED <<psVars, storeVars, baVars, tableVars, callVars, batchVars, pairVars, rankVars, mapVars, mdVars>>

InitAllocate == IdleGetAngle /\ IdleAllocate /\ IdleBatch /\ IdlePair /\ IdleRank /\ IdleMap /\ IdleDiagnose /\ IdleBayes /\ IdleStore /\ IdlePubSub

NextAllocate == \E domain \in AA_Domains : \E variable \in 1..MaxAllocNames :
                    AllocateAngle(domain, variable)

SpecAllocate == InitAllocate /\ [][NextAllocate]_vars

(***************************************************************************)
(* Claims about the allocators.                                            *)
(***************************************************************************)
\* the number of distinct angles of one domain's sector in process A
GA_Capacity == SectorSize \div AngleIncrement

\* C1: while no domain holds more keys than its sector has angles, two
\* different keys of the allocation table never have the same angle, whether
\* they lie in one subdomain, in two subdomains of one domain or in two domains.
C1_NoAliasing ==
    (\A domain \in DOMAIN domain_base_angles :
        Cardinality(GA_KeysOfDomain(angle_map, domain)) <= GA_Capacity)
    => \A k1, k2 \in DOMAIN angle_map : k1 # k2 => angle_map[k1] # angle_map[k2]

\* C2: a get_angle call removes no entry of the table and changes none, and a
\* call for a key that already has an angle returns exactly that angle.
C2_StableAngles ==
    [][/\ \A k \in DOMAIN angle_map :
            k \in DOMAIN angle_map' /\ angle_map'[k] = angle_map[k]
       /\ ga_call'.key \in DOMAIN angle_map => ga_ret' = angle_map[ga_call'.key]]_vars

\* a key is asked for again after other keys were allocated, and gets its angle
C2_Witness ==
    /\ ga_call.called /\ ~ga_call.fresh
    /\ Cardinality(DOMAIN angle_map) >= 3
    /\ ga_ret = angle_map[ga_call.key]

\* C3: a call for a new key of a domain whose angles are all in use raises
\* AllocationExhausted and records nothing.
C3_ExhaustionRaises ==
    (aa_call.called /\ aa_call.fresh /\ aa_call.full)
    => /\ aa_call.raised = "AllocationExhausted"
       /\ aa_call.key \notin DOMAIN allocated_angles

(***************************************************************************)
(* ProcessAOrchestrator.process_batch: one process_single_icd coroutine    *)
(* per record, run by asyncio.gather on one event loop.  A coroutine runs  *)
(* without interruption between two awaits: it suspends at the             *)
(* await of asyncio.gather in extract_expected_values, and after it       *)
(* resumes, merge_medical_data, extract_domains and every get_angle call   *)
(* they make run to the return with no await in between.                   *)
(***************************************************************************)
\* records of one batch
MaxRecords == 3
\* vital signs a record's literature data can name
MaxVitals == 2

Records == 1..MaxRecords

\* vital_signs = ['temperature', 'heart_rate', ...]: the fixed order in which
\* process_vitals_domain looks the names up; the name n stands for the n-th.
vital_signs == [n \in 1..MaxVitals |-> n]

\* process_vitals_domain: for vital in vital_signs: if vital in vitals_data:
\*     angle = self.angle_allocator.get_angle('vitals', None, vital)
\* from position i on; the result is the table, the offsets and the angles got.
RECURSIVE process_vitals_domain(_, _, _, _, _)
process_vitals_domain(am, so, data, i, got) ==
    IF i > Len(vital_signs)
        THEN [angle_map |-> am, subdomain_offsets |-> so, angles |-> got]
        ELSE IF vital_signs[i] \in data
            THEN process_vitals_domain(
                    GA_angle_map(am, so, "vitals", None, vital_signs[i]),
                    GA_subdomain_offsets(am, so, "vitals", None, vital_signs[i]),
                    data, i + 1,
                    [n \in DOMAIN got \cup {vital_signs[i]} |->
                        IF n = vital_signs[i]
                            THEN GA_angle_map(am, so, "vitals", None,
                                    vital_signs[i])[Key("vitals", None, vital_signs[i])]
                            ELSE got[n]])
            ELSE process_vitals_domain(am, so, data, i + 1, got)

\* process_single_icd up to the await of asyncio.gather in
\* extract_expected_values, where the coroutine suspends
StartTask(r) ==
    /\ task_pc[r] = "created"
    /\ task_pc' = [task_pc EXCEPT ![r] = "querying"]
    /\ UNCHANGED <<psVars, storeVars, baVars, tableVars, callVars, aaVars, pairVars, rankVars, mapVars, mdVars, vitals_data, task_angles>>

\* the rest of process_single_icd after the literature queries returned:
\* extract_domains with its get_angle calls, then the expanded record
ExtractDomains(r) ==
    /\ task_pc[r] = "querying"
    /\ LET out == process_vitals_domain(angle_map, subdomain_offsets,
                                        vitals_data[r], 1, <<>>)
       IN /\ angle_map' = out.angle_map
          /\ subdomain_offsets' = out.subdomain_offsets
          /\ task_angles' = [task_angles EXCEPT ![r] = out.angles]
    /\ task_pc' = [task_pc EXCEPT ![r] = "done"]
    /\ UNCHANGED <<psVars, storeVars, baVars, callVars, aaVars, pairVars, rankVars, mapVars, mdVars, vitals_data>>

InitBatch ==
    /\ IdleGetAngle /\ IdleAllocate /\ IdlePair /\ IdleRank /\ IdleMap /\ IdleDiagnose
    /\ vitals_data \in [Records -> SUBSET (1..MaxVitals)]
    /\ task_pc = [r \in Records |-> "created"]
    /\ task_angles = [r \in Records |-> <<>>]
    /\ IdleBayes
    /\ IdleStore
    /\ IdlePubSub

NextBatch == \E r \in Records : StartTask(r) \/ ExtractDomains(r)

SpecBatch == InitBatch /\ [][NextBatch]_vars

\* C4: whenever the tasks of a batch ask get_angle for the same key, each of
\* them is given the same angle, which is the one angle the table keeps for
\* the key, whatever the order in which the event loop resumes the tasks.
C4_SameKeySameAngle ==
    \A r1, r2 \in Records : \A n \in DOMAIN task_angles[r1] :
        /\ Key("vitals", None, n) \in DOMAIN angle_map
        /\ task_angles[r1][n] = angle_map[Key("vitals", None, n)]
        /\ n \in DOMAIN task_angles[r2] => task_angles[r1][n] = task_angles[r2][n]

\* three tasks finished, all of which asked for the same, previously unseen
\* vital sign, after having been suspended at the same time
C4_Witness ==
    /\ \A r \in Records : task_pc[r] = "done"
    /\ \E n \in 1..MaxVitals : \A r \in Records : n \in DOMAIN task_angles[r]
    /\ \E r1, r2 \in Records : vitals_data[r1] # vitals_data[r2]

(***************************************************************************)
(* Exact arithmetic for the engine's float computations: a number is a     *)
(* fraction <<n, d>> in lowest terms with d > 0.                           *)
(***************************************************************************)
RECURSIVE GCD(_, _)
GCD(a, b) == IF b = 0 THEN a ELSE GCD(b, a % b)

Abs(x) == IF x < 0 THEN -x ELSE x

Frac(n, d) == <<n \div GCD(Abs(n), d), d \div GCD(Abs(n), d)>>

Zero == Frac(0, 1)
One == Frac(1, 1)
FAdd(a, b) == Frac(a[1] * b[2] + b[1] * a[2], a[2] * b[2])
FSub(a, b) == Frac(a[1] * b[2] - b[1] * a[2], a[2] * b[2])
FMul(a, b) == Frac(a[1] * b[1], a[2] * b[2])
\* a / b for b > 0
FDiv(a, b) == Frac(a[1] * b[2], a[2] * b[1])
FAbs(a) == <<Abs(a[1]), a[2]>>
FLt(a, b) == a[1] * b[2] < b[1] * a[2]
FLe(a, b) == a[1] * b[2] <= b[1] * a[2]

\* sum(f[x] for x in S)
RECURSIVE FSum(_, _)
FSum(f, S) ==
    IF S = {} THEN Zero
    ELSE LET x == CHOOSE y \in S : TRUE IN FAdd(f[x], FSum(f, S \ {x}))

\* np.cos(np.radians(a) - np.radians(b)) for a - b = deg, a multiple of 60 degrees
Cos(deg) ==
    CASE deg % 360 = 0 -> Frac(1, 1)
      [] deg % 360 = 60 -> Frac(1, 2)
      [] deg % 360 = 120 -> Frac(-1, 2)
      [] deg % 360 = 180 -> Frac(-1, 1)
      [] deg % 360 = 240 -> Frac(-1, 2)
      [] deg % 360 = 300 -> Frac(1, 2)

\* d.get(field, default) on a record
Get(d, field, default) == IF field \in DOMAIN d THEN d[field] ELSE default

(***************************************************************************)
(* DiagnosticEngine of gcloud-backend-main.py: the three measures of one   *)
(* (patient, reference profile) pair.  patient_data maps a domain to the   *)
(* list of its mapped variables [variable, angle, magnitude]; a reference  *)
(* profile's complex_plane_data maps a domain to a list of stored records  *)
(* [variable, angle, magnitude, weight], magnitude and weight optional.    *)
(***************************************************************************)
\* reference.get('complex_plane_data', {})
complex_plane_data(ref) == Get(ref, "complex_plane_data", <<>>)

\* similarity = 1.0 - (angle_diff / 360.0 + magnitude_diff) / 2.0
similarity(patient_var, ref_var) ==
    FSub(One,
         FDiv(FAdd(Frac(Abs(patient_var.angle - ref_var.angle), 360),
                   FAbs(FSub(patient_var.magnitude, Get(ref_var, "magnitude", Zero)))),
              Frac(2, 1)))

\* the Bayesian loops without the name test: every pair of a shared domain
MatchedPairs_anyname(pd, ref) ==
    UNION {{<<domain, i, j>> :
               i \in 1..Len(pd[domain]),
               j \in 1..Len(complex_plane_data(ref)[domain])} :
           domain \in DOMAIN pd \cap DOMAIN complex_plane_data(ref)}

\* the (domain, i, j) for which the innermost `if` of the Bayesian loops holds
MatchedPairs(pd, ref) ==
    {t \in UNION {{<<domain, i, j>> :
                      i \in 1..Len(pd[domain]),
                      j \in 1..Len(complex_plane_data(ref)[domain])} :
                  domain \in DOMAIN pd \cap DOMAIN complex_plane_data(ref)} :
        pd[t[1]][t[2]].variable = complex_plane_data(ref)[t[1]][t[3]].variable}

\* weight = ref_var.get('weight', 1.0) of a matched pair
PairWeight(ref, t) == Get(complex_plane_data(ref)[t[1]][t[3]], "weight", One)

\* total_weight of _calculate_bayesian_probability
total_weight(pd, ref) ==
    FSum([t \in MatchedPairs(pd, ref) |-> PairWeight(ref, t)], MatchedPairs(pd, ref))

\* total_score of _calculate_bayesian_probability
total_score(pd, ref) ==
    FSum([t \in MatchedPairs(pd, ref) |->
            FMul(similarity(pd[t[1]][t[2]], complex_plane_data(ref)[t[1]][t[3]]),
                 PairWeight(ref, t))],
         MatchedPairs(pd, ref))

\* _calculate_bayesian_probability(patient_data, reference)
calculate_bayesian_probability(pd, ref) ==
    LET weight_sum == total_weight(pd, ref)
    IN IF FLt(Zero, weight_sum)
        THEN FDiv(total_score(pd, ref), weight_sum)
        ELSE Zero

Min(a, b) == IF a < b THEN a ELSE b

\* phase_diff = np.mean([np.cos(patient_phases[i] - ref_phases[i])
\*                       for i in range(min_len)])
phase_diff(patient_vars, ref_vars) ==
    FDiv(FSum([i \in 1..Min(Len(patient_vars), Len(ref_vars)) |->
                  Cos(patient_vars[i].angle - ref_vars[i].angle)],
              1..Min(Len(patient_vars), Len(ref_vars))),
         Frac(Min(Len(patient_vars), Len(ref_vars)), 1))

\* the domains that append a term to phase_differences
PhaseDomains(pd, ref) ==
    {domain \in DOMAIN pd \cap DOMAIN complex_plane_data(ref) :
        Len(pd[domain]) > 0 /\ Len(complex_plane_data(ref)[domain]) > 0}

\* _calculate_kuramoto_synchronization(patient_data, reference)
calculate_kuramoto_synchronization(pd, ref) ==
    IF PhaseDomains(pd, ref) = {} THEN Zero
    ELSE FDiv(FSum([domain \in PhaseDomains(pd, ref) |->
                       phase_diff(pd[domain], complex_plane_data(ref)[domain])],
                   PhaseDomains(pd, ref)),
              Frac(Cardinality(PhaseDomains(pd, ref)), 1))

\* domain_sequence of _calculate_markov_probability
domain_sequence == <<"subjective", "vitals", "examination", "laboratory", "imaging">>

\* the reference positions that carry the patient variable's name
SameNamed(patient_var, reference_domain) ==
    {j \in 1..Len(reference_domain) :
        reference_domain[j].variable = patient_var.variable}

\* the inner loop of _domain_match_score without its break: every same-named
\* reference record with both magnitudes above 0.5 counts
MatchCount_nobreak(patient_var, reference_domain) ==
    Cardinality({j \in SameNamed(patient_var, reference_domain) :
        /\ FLt(Frac(1, 2), patient_var.magnitude)
        /\ FLt(Frac(1, 2), Get(reference_domain[j], "magnitude", Zero))})

\* the inner loop of _domain_match_score for one patient variable: what it
\* adds to matches.  The break leaves the loop at the first same-named record.
MatchCount(patient_var, reference_domain) ==
    IF SameNamed(patient_var, reference_domain) = {} THEN 0
    ELSE LET j == CHOOSE k \in SameNamed(patient_var, reference_domain) :
                    \A l \in SameNamed(patient_var, reference_domain) : k <= l
         IN IF /\ FLt(Frac(1, 2), patient_var.magnitude)
               /\ FLt(Frac(1, 2), Get(reference_domain[j], "magnitude", Zero))
                THEN 1 ELSE 0

RECURSIVE SumInts(_, _)
SumInts(f, S) ==
    IF S = {} THEN 0
    ELSE LET x == CHOOSE y \in S : TRUE IN f[x] + SumInts(f, S \ {x})

\* _domain_match_score(patient_domain, reference_domain)
domain_match_score(patient_domain, reference_domain) ==
    IF Len(patient_domain) = 0 \/ Len(reference_domain) = 0 THEN Zero
    ELSE Frac(SumInts([i \in 1..Len(patient_domain) |->
                          MatchCount(patient_domain[i], reference_domain)],
                      1..Len(patient_domain)),
              Len(patient_domain))

\* the term the i-th step of the domain chain adds to transition_score
transition_term(pd, ref, i) ==
    IF /\ domain_sequence[i] \in DOMAIN pd
       /\ domain_sequence[i + 1] \in DOMAIN pd
       /\ domain_sequence[i] \in DOMAIN complex_plane_data(ref)
       /\ domain_sequence[i + 1] \in DOMAIN complex_plane_data(ref)
        THEN FMul(domain_match_score(pd[domain_sequence[i]],
                                     complex_plane_data(ref)[domain_sequence[i]]),
                  domain_match_score(pd[domain_sequence[i + 1]],
                                     complex_plane_data(ref)[domain_sequence[i + 1]]))
        ELSE Zero

\* _calculate_markov_probability(patient_data, reference)
calculate_markov_probability(pd, ref) ==
    FDiv(FSum([i \in 1..(Len(domain_sequence) - 1) |-> transition_term(pd, ref, i)],
              1..(Len(domain_sequence) - 1)),
         Frac(Len(domain_sequence) - 1, 1))

\* the two-term ensemble 0.7 * bayesian + 0.3 * kuramoto
combined_score_two_term(bayesian, kuramoto, markov) ==
    FAdd(FMul(Frac(7, 10), bayesian), FMul(Frac(3, 10), kuramoto))

\* scores['combined'] = bayesian * 0.4 + kuramoto * 0.3 + markov * 0.3
combined_score(bayesian, kuramoto, markov) ==
    FAdd(FAdd(FMul(bayesian, Frac(4, 10)), FMul(kuramoto, Frac(3, 10))),
         FMul(markov, Frac(3, 10)))

\* the scores dictionary analyze_patient_encounter builds for one profile
profile_scores(pd, icd_code, ref) ==
    LET bayesian == calculate_bayesian_probability(pd, ref)
        kuramoto == calculate_kuramoto_synchronization(pd, ref)
        markov == calculate_markov_probability(pd, ref)
    IN [icd10_code |-> icd_code,
        bayesian |-> bayesian,
        kuramoto |-> kuramoto,
        markov |-> markov,
        combined |-> combined_score(bayesian, kuramoto, markov)]

(***************************************************************************)
(* Scoring one pair: the three measures as functions of their inputs.      *)
(***************************************************************************)
\* reference records over both domains of a drawn reference profile
MaxRefVars == 3

\* the domains of the drawn inputs: the first two of the domain chain
PairDomains == {"subjective", "vitals"}

SeqsUpTo(S, n) == UNION {[1..k -> S] : k \in 0..n}

\* mapped patient variables: the angles of angle_mapping, magnitudes below
\* and above the 0.5 threshold
PatientVars ==
    {[variable |-> "temperature", angle |-> 0, magnitude |-> Frac(2, 10)],
     [variable |-> "temperature", angle |-> 0, magnitude |-> Frac(8, 10)],
     [variable |-> "respiratory_rate", angle |-> 300, magnitude |-> Frac(8, 10)]}

\* a domain's list comes from a dictionary: no name occurs twice
PatientLists ==
    {l \in SeqsUpTo(PatientVars, 2) :
        \A i, j \in 1..Len(l) : i # j => l[i].variable # l[j].variable}

\* stored reference records: as the library builders write them (temperature
\* at 0 degrees with magnitude 0.8 and no weight; respiratory_rate at 180
\* degrees with magnitude 0.0; a weighted 0.9 record) and one that carries a raw
\* value, 3.0, as its magnitude
RefVars ==
    {[variable |-> "temperature", angle |-> 0, magnitude |-> Frac(8, 10)],
     [variable |-> "respiratory_rate", angle |-> 180, magnitude |-> Zero],
     [variable |-> "respiratory_rate", angle |-> 240, magnitude |-> Frac(9, 10),
      weight |-> Frac(7, 10)],
     [variable |-> "temperature", angle |-> 0, magnitude |-> Frac(3, 1),
      weight |-> Frac(9, 10)]}

PatientDatas == UNION {[D -> PatientLists] : D \in SUBSET PairDomains}

RECURSIVE TotalLen(_, _)
TotalLen(f, D) ==
    IF D = {} THEN 0
    ELSE LET d == CHOOSE e \in D : TRUE IN Len(f[d]) + TotalLen(f, D \ {d})

References ==
    {[icd10_code |-> 1, complex_plane_data |-> f] :
        f \in {g \in UNION {[D -> SeqsUpTo(RefVars, MaxRefVars)] :
                               D \in SUBSET PairDomains} :
                  TotalLen(g, DOMAIN g) <= MaxRefVars}}

InitPair ==
    /\ IdleGetAngle /\ IdleAllocate /\ IdleBatch /\ IdleRank /\ IdleMap /\ IdleDiagnose
    /\ patient_data \in PatientDatas
    /\ reference \in References
    /\ pair_scores = <<>>
    /\ IdleBayes
    /\ IdleStore
    /\ IdlePubSub

\* one iteration of `for icd_code, reference_profile in ...items()`: the
\* three measures and the combined score of one profile
ScorePair ==
    /\ pair_scores = <<>>
    /\ pair_scores' = profile_scores(patient_data, reference.icd10_code, reference)
    /\ UNCHANGED <<psVars, storeVars, baVars, tableVars, callVars, aaVars, batchVars, rankVars, mapVars, mdVars, patient_data, reference>>

NextPair == ScorePair

SpecPair == InitPair /\ [][NextPair]_vars

Scored == pair_scores # <<>>

\* C7: the kuramoto score of a scored pair lies in [0, 1].
C7_KuramotoInUnitInterval ==
    Scored => FLe(Zero, pair_scores.kuramoto) /\ FLe(pair_scores.kuramoto, One)

\* C8: the bayesian score of a scored pair lies in [0, 1].
C8_BayesianInUnitInterval ==
    Scored => FLe(Zero, pair_scores.bayesian) /\ FLe(pair_scores.bayesian, One)

\* the patient variables of a domain that, by the claim's wording, have a
\* same-named reference variable with both magnitudes above 0.5
AnyMatch(patient_domain, reference_domain) ==
    {i \in 1..Len(patient_domain) :
        \E j \in SameNamed(patient_domain[i], reference_domain) :
            /\ FLt(Frac(1, 2), patient_domain[i].magnitude)
            /\ FLt(Frac(1, 2), Get(reference_domain[j], "magnitude", Zero))}

\* the patient variables of a domain whose first same-named reference
\* variable has a magnitude above 0.5, as the patient variable itself has
FirstMatch(patient_domain, reference_domain) ==
    {i \in 1..Len(patient_domain) :
        \E j \in SameNamed(patient_domain[i], reference_domain) :
            /\ \A l \in SameNamed(patient_domain[i], reference_domain) : j <= l
            /\ FLt(Frac(1, 2), patient_domain[i].magnitude)
            /\ FLt(Frac(1, 2), Get(reference_domain[j], "magnitude", Zero))}

\* the domains of a scored pair in which a domain match score is a quotient
MatchDomains ==
    {domain \in DOMAIN patient_data \cap DOMAIN complex_plane_data(reference) :
        Len(patient_data[domain]) > 0}

\* C9 as stated: markov lies in [0, 1] and every domain match score is the
\* number of patient variables with some same-named reference variable, both
\* magnitudes above 0.5, divided by the number of patient variables.
C9_MarkovAnyMatch ==
    Scored =>
        /\ FLe(Zero, pair_scores.markov) /\ FLe(pair_scores.markov, One)
        /\ \A domain \in MatchDomains :
              domain_match_score(patient_data[domain],
                                 complex_plane_data(reference)[domain])
              = Frac(Cardinality(AnyMatch(patient_data[domain],
                                          complex_plane_data(reference)[domain])),
                     Len(patient_data[domain]))

\* C9 as amended: markov lies in [0, 1] and every domain match score is the
\* number of patient variables whose first same-named reference variable has
\* both magnitudes above 0.5, divided by the number of patient variables; the
\* count never exceeds the number of patient variables.
C9_MarkovFirstMatch ==
    Scored =>
        /\ FLe(Zero, pair_scores.markov) /\ FLe(pair_scores.markov, One)
        /\ \A domain \in MatchDomains :
              /\ domain_match_score(patient_data[domain],
                                    complex_plane_data(reference)[domain])
                 = Frac(Cardinality(FirstMatch(patient_data[domain],
                                               complex_plane_data(reference)[domain])),
                        Len(patient_data[domain]))
              /\ FLe(domain_match_score(patient_data[domain],
                                        complex_plane_data(reference)[domain]), One)

\* a scored pair whose reference lists a name twice in a domain where the
\* patient has that variable, with a positive markov score
C9_Witness ==
    /\ Scored
    /\ FLt(Zero, pair_scores.markov)
    /\ \E domain \in MatchDomains : \E i \in 1..Len(patient_data[domain]) :
          Cardinality(SameNamed(patient_data[domain][i],
                                complex_plane_data(reference)[domain])) >= 2

(***************************************************************************)
(* analyze_patient_encounter: mapping the encounter, scoring every         *)
(* profile of the library, sorting and keeping the first ten.              *)
(***************************************************************************)
\* profiles in a drawn library
MaxProfiles == 11

\* analyze_patient_encounter calls on one engine
MaxCalls == 2

\* the period with which the documents of a drawn library repeat
MaxPattern == 3

\* the keys of DOMAINS
DOMAINS == {"subjective", "vitals", "examination", "laboratory", "imaging",
            "procedures"}

\* ComplexPlaneMapper.angle_mapping: only 'vitals' is filled in
angle_mapping ==
    [vitals |-> [temperature |-> 0, heart_rate |-> 60, bp_systolic |-> 120,
                 bp_diastolic |-> 180, oxygen_saturation |-> 240,
                 respiratory_rate |-> 300]]

\* the ranges with heart_rate from 20 to 200, of which 110 is the midpoint
normalization_ranges_midpoint ==
    [vitals |-> [temperature |-> <<35, 42>>, heart_rate |-> <<20, 200>>,
                 bp_systolic |-> <<70, 200>>, bp_diastolic |-> <<40, 130>>,
                 oxygen_saturation |-> <<70, 100>>,
                 respiratory_rate |-> <<8, 40>>]]

\* normalization_ranges of _normalize_value: (min_val, max_val)
normalization_ranges ==
    [vitals |-> [temperature |-> <<35, 42>>, heart_rate |-> <<40, 200>>,
                 bp_systolic |-> <<70, 200>>, bp_diastolic |-> <<40, 130>>,
                 oxygen_saturation |-> <<70, 100>>,
                 respiratory_rate |-> <<8, 40>>]]

FMax(a, b) == IF FLt(a, b) THEN b ELSE a

FMin(a, b) == IF FLt(a, b) THEN a ELSE b

\* the normalisation without the clamp
normalize_value_noclamp(domain, variable, value) ==
    IF domain \in DOMAIN normalization_ranges
       /\ variable \in DOMAIN normalization_ranges[domain]
    THEN FDiv(FSub(value, Frac(normalization_ranges[domain][variable][1], 1)),
              Frac(normalization_ranges[domain][variable][2]
                     - normalization_ranges[domain][variable][1], 1))
    ELSE Frac(1, 2)

\* ComplexPlaneMapper._normalize_value(domain, variable, value)
normalize_value(domain, variable, value) ==
    IF domain \in DOMAIN normalization_ranges
       /\ variable \in DOMAIN normalization_ranges[domain]
    THEN LET min_val == normalization_ranges[domain][variable][1]
             max_val == normalization_ranges[domain][variable][2]
             normalized == FDiv(FSub(value, Frac(min_val, 1)),
                                Frac(max_val - min_val, 1))
         IN FMax(Zero, FMin(One, normalized))
    ELSE Frac(1, 2)

\* an encounter value: a number (isnum) or a text, empty or not
Number(n) == [isnum |-> TRUE, num |-> Frac(n, 1), text |-> ""]

Text(t) == [isnum |-> FALSE, num |-> Zero, text |-> t]

\* the magnitude map_to_complex_plane gives a value
magnitude_of(domain, var_name, value) ==
    IF value.isnum
    THEN normalize_value(domain, var_name, value.num)
    ELSE IF value.text # "" THEN One ELSE Zero

\* a mapper that maps no observation
map_nothing(domain, variables) == <<>>

\* ComplexPlaneMapper.map_to_complex_plane(domain, variables); variables is
\* the list of (name, value) items of the domain's dictionary
RECURSIVE map_to_complex_plane(_, _)
map_to_complex_plane(domain, variables) ==
    IF variables = <<>> THEN <<>>
    ELSE LET var_name == Head(variables).name
             value == Head(variables).value
             rest == map_to_complex_plane(domain, Tail(variables))
         IN IF domain \in DOMAIN angle_mapping
               /\ var_name \in DOMAIN angle_mapping[domain]
            THEN <<[variable |-> var_name,
                    angle |-> angle_mapping[domain][var_name],
                    magnitude |-> magnitude_of(domain, var_name, value)]>>
                 \o rest
            ELSE rest

\* patient_complex_data of analyze_patient_encounter
patient_complex_data(encounter) ==
    [domain \in DOMAIN encounter \cap DOMAINS |->
        map_to_complex_plane(domain, encounter[domain])]

\* the diagnosis_scores list before it is sorted: one entry appended per
\* profile, in the order of reference_library.items()
RECURSIVE diagnosis_scores(_, _)
diagnosis_scores(pcd, library) ==
    IF library = <<>> THEN <<>>
    ELSE <<profile_scores(pcd, Head(library).icd10_code, Head(library).profile)>>
         \o diagnosis_scores(pcd, Tail(library))

\* the place list.sort(key=combined, reverse=True) gives entry i: behind
\* every entry with a larger key and behind the earlier entries with the
\* same key
sorted_place(scores, i) ==
    1 + Cardinality({j \in 1..Len(scores) :
                        \/ FLt(scores[i].combined, scores[j].combined)
                        \/ j < i /\ scores[j].combined = scores[i].combined})

\* the entries of scores that the sort puts at places p, p + 1, ...
RECURSIVE sorted_from(_, _)
sorted_from(scores, p) ==
    IF p > Len(scores) THEN <<>>
    ELSE <<scores[CHOOSE i \in 1..Len(scores) : sorted_place(scores, i) = p]>>
         \o sorted_from(scores, p + 1)

\* the list left in the order of reference_library.items()
unsorted(scores) == scores

\* diagnosis_scores.sort(key=lambda x: x['combined'], reverse=True)
sort_by_combined(scores) == sorted_from(scores, 1)

\* the number of diagnoses kept
TopK == 10

top_all(scores) == scores

\* diagnosis_scores[:10]
top_diagnoses(scores) == SubSeq(scores, 1, Min(TopK, Len(scores)))

\* a variant that stamps every entry of the ranked list with the time of
\* the call
analyze_patient_encounter_stamped(encounter, library, now) ==
    LET pcd == patient_complex_data(encounter)
        scores == diagnosis_scores(pcd, library)
        ranked == top_diagnoses(sort_by_combined(scores))
    IN [diagnoses |-> [i \in 1..Len(ranked) |-> <<ranked[i], now>>],
        patient_complex_data |-> pcd,
        analysis_timestamp |-> now]

\* what analyze_patient_encounter(encounter_data) returns when
\* datetime.utcnow() reads now
analyze_patient_encounter(encounter, library, now) ==
    LET pcd == patient_complex_data(encounter)
        scores == diagnosis_scores(pcd, library)
    IN [diagnoses |-> top_diagnoses(sort_by_combined(scores)),
        patient_complex_data |-> pcd,
        analysis_timestamp |-> now]

\* the encounters drawn: one without any domain, one with a heart rate of
\* 110, one with further vitals, and one whose only domains have no angle
\* mapping or are not in DOMAINS
Encounters ==
    {[domain \in {} |-> <<>>],
     [vitals |-> <<[name |-> "heart_rate", value |-> Number(110)]>>],
     [vitals |-> <<[name |-> "temperature", value |-> Number(39)],
                   [name |-> "heart_rate", value |-> Number(250)],
                   [name |-> "rhythm", value |-> Text("irregular")]>>],
     [subjective |-> <<[name |-> "chief_complaint", value |-> Text("chest pain")]>>,
      notes |-> <<[name |-> "heart_rate", value |-> Number(60)]>>]}

\* the profile documents drawn: records as the library builders write them
\* (a heart rate alone; a temperature with a weighted heart rate) and a
\* document without complex_plane_data
Profiles ==
    {[description |-> "tachycardia",
      complex_plane_data |->
          [vitals |-> <<[variable |-> "heart_rate", angle |-> 60,
                         magnitude |-> Frac(8, 10)]>>]],
     [description |-> "fever",
      complex_plane_data |->
          [vitals |-> <<[variable |-> "temperature", angle |-> 0,
                         magnitude |-> Frac(8, 10)],
                        [variable |-> "heart_rate", angle |-> 60,
                         magnitude |-> Zero, weight |-> Frac(9, 10)]>>]],
     [description |-> ""]}

\* the libraries drawn: identifiers 1..n, loaded in ascending or in
\* descending order of the identifiers; the documents of the identifiers
\* repeat a drawn pattern of MaxPattern documents
Libraries ==
    {[i \in 1..n |->
        [icd10_code |-> IF ascending THEN i ELSE n + 1 - i,
         profile |-> pattern[(((IF ascending THEN i ELSE n + 1 - i) - 1)
                                 % MaxPattern) + 1]]] :
     <<n, pattern, ascending>> \in
        (0..MaxProfiles) \X [1..MaxPattern -> Profiles] \X BOOLEAN}

\* DiagnosticEngine.__init__ has loaded the library; no encounter analysed
InitRank ==
    /\ IdleGetAngle /\ IdleAllocate /\ IdleBatch /\ IdlePair /\ IdleMap /\ IdleDiagnose
    /\ reference_library \in Libraries
    /\ encounter_data \in Encounters
    /\ analysis = <<>>
    /\ utcnow = 0
    /\ previous_analysis = <<>>
    /\ IdleBayes
    /\ IdleStore
    /\ IdlePubSub

\* one call analyze_patient_encounter(encounter_data); the clock has moved
\* on when the next call reads it
AnalyzePatientEncounter ==
    /\ utcnow < MaxCalls
    /\ analysis' = analyze_patient_encounter(encounter_data, reference_library, utcnow)
    /\ previous_analysis' = analysis
    /\ utcnow' = utcnow + 1
    /\ UNCHANGED <<psVars, storeVars, baVars, tableVars, callVars, aaVars, batchVars, pairVars, mapVars, mdVars,
                   reference_library, encounter_data>>

NextRank == AnalyzePatientEncounter

SpecRank == InitRank /\ [][NextRank]_vars

Analysed == analysis # <<>>

\* C5: the diagnoses are ordered by combined score descending, ties by
\* bayesian score descending, remaining ties by disease identifier
\* ascending, in whatever order the library was loaded.
C5_RankingOrder ==
    Analysed =>
        \A i, j \in 1..Len(analysis.diagnoses) :
            i < j =>
                LET a == analysis.diagnoses[i]
                    b == analysis.diagnoses[j]
                IN \/ FLt(b.combined, a.combined)
                   \/ /\ a.combined = b.combined
                      /\ \/ FLt(b.bayesian, a.bayesian)
                         \/ /\ a.bayesian = b.bayesian
                            /\ a.icd10_code < b.icd10_code

\* C6: the diagnoses are min(K, N) many, K = 10 and N the number of
\* profiles in the library.
C6_LengthIsMinKN ==
    Analysed =>
        Len(analysis.diagnoses) =
            IF Len(reference_library) < 10 THEN Len(reference_library) ELSE 10

\* an analysis over a library of more than ten profiles, cut to ten
C6_Witness ==
    /\ Analysed
    /\ Len(reference_library) > 10
    /\ Len(analysis.diagnoses) = 10

\* C10: for an encounter without any domain the analysis returns min(K, N)
\* diagnoses, each with combined score 0.0, ordered by disease identifier
\* ascending.
C10_EmptyEncounter ==
    Analysed /\ DOMAIN encounter_data = {} =>
        /\ Len(analysis.diagnoses) =
              IF Len(reference_library) < 10 THEN Len(reference_library) ELSE 10
        /\ \A i \in 1..Len(analysis.diagnoses) :
              analysis.diagnoses[i].combined = Zero
        /\ \A i, j \in 1..Len(analysis.diagnoses) :
              i < j => analysis.diagnoses[i].icd10_code
                          < analysis.diagnoses[j].icd10_code

(***************************************************************************)
(* medical-diagnostic-system.py: the DiagnosticEngine with its domain      *)
(* processors, from process_patient_encounter to diagnose.                 *)
(***************************************************************************)
\* items in the vitals dictionary of a drawn patient_data
MaxRawVitals == 2

\* VitalsDomainProcessor.vital_angles, in degrees
vital_angles ==
    [temperature |-> 0, heart_rate |-> 60, bp_systolic |-> 120,
     bp_diastolic |-> 180, oxygen_saturation |-> 240, respiratory_rate |-> 300]

\* VitalsDomainProcessor.normalization_factors: (min, max)
normalization_factors ==
    [temperature |-> <<35, 42>>, heart_rate |-> <<40, 200>>,
     bp_systolic |-> <<70, 200>>, bp_diastolic |-> <<40, 120>>,
     oxygen_saturation |-> <<70, 100>>, respiratory_rate |-> <<8, 40>>]

\* the value VitalsDomainProcessor.process gives a numeric vital
vitals_normalized(vital, value) ==
    LET min_val == normalization_factors[vital][1]
        max_val == normalization_factors[vital][2]
        normalized == FDiv(FSub(value, Frac(min_val, 1)), Frac(max_val - min_val, 1))
    IN FMax(Zero, FMin(One, normalized))

\* VitalsDomainProcessor.process(raw_data): the variables built, or the
\* TypeError of `value - min_val` on a value that is not a number
RECURSIVE vitals_process(_)
vitals_process(raw_data) ==
    IF raw_data = <<>> THEN [raised |-> "", variables |-> <<>>]
    ELSE LET vital == Head(raw_data).name
             value == Head(raw_data).value
             rest == vitals_process(Tail(raw_data))
         IN IF vital \notin DOMAIN vital_angles THEN rest
            ELSE IF ~value.isnum THEN [raised |-> "TypeError", variables |-> <<>>]
            ELSE IF rest.raised # "" THEN rest
            ELSE [raised |-> "",
                  variables |-> <<[variable |-> vital,
                                   angle |-> vital_angles[vital],
                                   magnitude |-> vitals_normalized(vital, value.num)]>>
                                \o rest.variables]

\* SubjectiveDomainProcessor.process(raw_data): age is the one variable it
\* builds (NLPProcessor.extract_variables returns no variables), or the
\* TypeError of raw_data["age"] / 100.0 on an age that is not a number
subjective_process(raw_data) ==
    LET ages == {i \in 1..Len(raw_data) : raw_data[i].name = "age"}
    IN IF ages = {} THEN [raised |-> "", variables |-> <<>>]
       ELSE LET value == raw_data[CHOOSE i \in ages : TRUE].value
            IN IF ~value.isnum THEN [raised |-> "TypeError", variables |-> <<>>]
               ELSE [raised |-> "",
                     variables |-> <<[variable |-> "age", angle |-> 0,
                                      magnitude |-> FDiv(value.num, Frac(100, 1))]>>]

\* DiagnosticEngine.process_patient_encounter(patient_data)
process_patient_encounter(data) ==
    LET subjective == IF "subjective" \in DOMAIN data
                      THEN subjective_process(data["subjective"])
                      ELSE [raised |-> "", variables |-> <<>>]
        vitals == IF "vitals" \in DOMAIN data
                  THEN vitals_process(data["vitals"])
                  ELSE [raised |-> "", variables |-> <<>>]
    IN IF subjective.raised # "" THEN [raised |-> subjective.raised, domains |-> <<>>]
       ELSE IF vitals.raised # "" THEN [raised |-> vitals.raised, domains |-> <<>>]
       ELSE [raised |-> "",
             domains |-> [domain \in DOMAIN data \cap {"subjective", "vitals"} |->
                            IF domain = "subjective" THEN subjective.variables
                            ELSE vitals.variables]]

\* DiagnosticEngine.diagnose(patient_encounter): its first statement calls
\* a method of self.bayesian, which __init__ sets to None and nothing sets
\* again; past it the loops run over self.disease_library, which stays
\* empty (load_icd10_library and build_reference_library are `pass`)
diagnose(analyzer, encounter) ==
    IF analyzer = None
    THEN [raised |-> "AttributeError", results |-> <<>>]
    ELSE [raised |-> "", results |-> <<>>]

\* the values drawn for a raw observation
RawValues == {Number(110), Number(30), Number(250), Text("fast")}

\* the names drawn for a raw vital: two with an angle, one without
RawVitalNames == {"heart_rate", "temperature", "glucose"}

RawItems(names) == {[name |-> n, value |-> v] : n \in names, v \in RawValues}

\* the items of a dictionary: no name twice
RawDicts(names, n) ==
    {l \in SeqsUpTo(RawItems(names), n) :
        \A i, j \in 1..Len(l) : i # j => l[i].name # l[j].name}

\* the patient_data drawn: vitals and subjective, each present or not
RawPatientDatas ==
    {[domain \in D |-> IF domain = "vitals" THEN v ELSE sub] :
        D \in SUBSET {"subjective", "vitals"},
        v \in RawDicts(RawVitalNames, MaxRawVitals),
        sub \in RawDicts({"age"}, 1)}

\* DiagnosticEngine.__init__ has run: no library, no analyzer
InitDiagnose ==
    /\ IdleGetAngle /\ IdleAllocate /\ IdleBatch /\ IdlePair /\ IdleRank /\ IdleMap
    /\ disease_library = <<>>
    /\ bayesian_analyzer = None
    /\ raw_patient_data \in RawPatientDatas
    /\ patient_encounter = <<>>
    /\ diagnosis = <<>>
    /\ IdleBayes
    /\ IdleStore
    /\ IdlePubSub

ProcessPatientEncounter ==
    /\ patient_encounter = <<>>
    /\ patient_encounter' = process_patient_encounter(raw_patient_data)
    /\ UNCHANGED <<psVars, storeVars, baVars, tableVars, callVars, aaVars, batchVars, pairVars, rankVars, mapVars,
                   disease_library, bayesian_analyzer, raw_patient_data, diagnosis>>

Diagnose ==
    /\ patient_encounter # <<>>
    /\ patient_encounter.raised = ""
    /\ diagnosis = <<>>
    /\ diagnosis' = diagnose(bayesian_analyzer, patient_encounter)
    /\ UNCHANGED <<psVars, storeVars, baVars, tableVars, callVars, aaVars, batchVars, pairVars, rankVars, mapVars,
                   disease_library, bayesian_analyzer, raw_patient_data,
                   patient_encounter>>

NextDiagnose == ProcessPatientEncounter \/ Diagnose

SpecDiagnose == InitDiagnose /\ [][NextDiagnose]_vars

Diagnosed == diagnosis # <<>>

\* C11: with no reference profiles (the library is empty or was never
\* loaded) a diagnosis returns an empty ranked list and raises no error.
C11_EmptyLibraryNoError ==
    Diagnosed /\ Len(disease_library) = 0 =>
        diagnosis.raised = "" /\ diagnosis.results = <<>>

\* the document the library holds for an identifier
ProfileOf(icd_code) ==
    reference_library[CHOOSE i \in 1..Len(reference_library) :
                         reference_library[i].icd10_code = icd_code].profile

\* the document has no domain at all
NoDomains(profile) == DOMAIN complex_plane_data(profile) = {}

\* C12 as stated: a profile without any domain gets combined 0.0 and stands
\* behind every candidate that has at least one domain.
C12_NoDomainsBehindAllOthers ==
    Analysed =>
        \A i \in 1..Len(analysis.diagnoses) :
            NoDomains(ProfileOf(analysis.diagnoses[i].icd10_code)) =>
                /\ analysis.diagnoses[i].combined = Zero
                /\ \A j \in 1..Len(analysis.diagnoses) :
                      ~NoDomains(ProfileOf(analysis.diagnoses[j].icd10_code)) => j < i

\* C12 as amended: a profile without any domain gets combined 0.0 and
\* stands behind every candidate whose combined score is above 0.0.
C12_NoDomainsBehindPositive ==
    Analysed =>
        \A i \in 1..Len(analysis.diagnoses) :
            NoDomains(ProfileOf(analysis.diagnoses[i].icd10_code)) =>
                /\ analysis.diagnoses[i].combined = Zero
                /\ \A j \in 1..Len(analysis.diagnoses) :
                      FLt(Zero, analysis.diagnoses[j].combined) => j < i

\* an analysis that lists a profile without domains behind a candidate with
\* a positive score that the library holds after it
C12_Witness ==
    /\ Analysed
    /\ \E i, j \in 1..Len(analysis.diagnoses) :
          /\ NoDomains(ProfileOf(analysis.diagnoses[i].icd10_code))
          /\ FLt(Zero, analysis.diagnoses[j].combined)
          /\ j < i
          /\ \E k, l \in 1..Len(reference_library) :
                /\ k < l
                /\ reference_library[k].icd10_code = analysis.diagnoses[i].icd10_code
                /\ reference_library[l].icd10_code = analysis.diagnoses[j].icd10_code

(***************************************************************************)
(* Scoring an encounter against a profile built from its own mapped        *)
(* representation.                                                         *)
(***************************************************************************)
\* the orders in which a list can hold its records
Reorderings(l) ==
    {[i \in 1..Len(l) |-> l[p[i]]] :
        p \in {q \in [1..Len(l) -> 1..Len(l)] :
                  \A i, j \in 1..Len(l) : i # j => q[i] # q[j]}}

\* the mappings that hold, domain by domain, the records of f in some order
DomainReorderings(f) ==
    {g \in [DOMAIN f -> UNION {Reorderings(f[domain]) : domain \in DOMAIN f}] :
        \A domain \in DOMAIN f : g[domain] \in Reorderings(f[domain])}

\* the profiles that hold the patient's own records, in any order
SelfReferences(pd) ==
    {[icd10_code |-> 1, complex_plane_data |-> f] : f \in DomainReorderings(pd)}

\* a mapped encounter and a profile built from it
InitSelf ==
    /\ IdleGetAngle /\ IdleAllocate /\ IdleBatch /\ IdleRank /\ IdleMap /\ IdleDiagnose
    /\ patient_data \in PatientDatas
    /\ reference \in SelfReferences(patient_data)
    /\ pair_scores = <<>>
    /\ IdleBayes
    /\ IdleStore
    /\ IdlePubSub

SpecSelf == InitSelf /\ [][NextPair]_vars

\* C13: an encounter with at least one mapped variable, scored against a
\* profile built from its own mapped records in any order within a domain,
\* gets kuramoto 1.0 and bayesian 1.0.
C13_SelfMatchIsPerfect ==
    Scored /\ (\E domain \in DOMAIN patient_data : Len(patient_data[domain]) > 0) =>
        pair_scores.kuramoto = One /\ pair_scores.bayesian = One

HeartRate110 ==
    /\ DOMAIN encounter_data = {"vitals"}
    /\ encounter_data["vitals"] = <<[name |-> "heart_rate", value |-> Number(110)]>>

\* the document's only entry is vitals heart_rate
HeartRateOnly(profile) ==
    /\ DOMAIN complex_plane_data(profile) = {"vitals"}
    /\ Len(complex_plane_data(profile)["vitals"]) = 1
    /\ complex_plane_data(profile)["vitals"][1].variable = "heart_rate"

MaxMapVars == 2

\* the numbers drawn as values: below, at, between and above the bounds of
\* the configured ranges
MapNumbers == {0, 8, 38, 40, 70, 110, 250}

\* the values drawn: numbers, a text and the empty text
MapValues == {Number(n) : n \in MapNumbers} \cup {Text("fast"), Text("")}

\* the names drawn: the six of angle_mapping['vitals'] and one without angle
MapNames == DOMAIN angle_mapping["vitals"] \cup {"glucose"}

\* the dictionaries drawn, as their lists of items: no name twice
MapDicts ==
    {l \in SeqsUpTo({[name |-> n, value |-> v] : n \in MapNames, v \in MapValues},
                    MaxMapVars) :
        \A i, j \in 1..Len(l) : i # j => l[i].name # l[j].name}

InitMap ==
    /\ IdleGetAngle /\ IdleAllocate /\ IdleBatch /\ IdlePair /\ IdleRank /\ IdleDiagnose
    /\ map_domain \in {"vitals", "subjective"}
    /\ map_variables \in MapDicts
    /\ complex_data = <<>>
    /\ IdleBayes
    /\ IdleStore
    /\ IdlePubSub

\* one call map_to_complex_plane(domain, variables)
MapToComplexPlane ==
    /\ complex_data = <<>>
    /\ complex_data' = [returned |-> map_to_complex_plane(map_domain, map_variables)]
    /\ UNCHANGED <<psVars, storeVars, baVars, tableVars, callVars, aaVars, batchVars, pairVars, rankVars, mdVars,
                   map_domain, map_variables>>

NextMap == MapToComplexPlane

SpecMap == InitMap /\ [][NextMap]_vars

Mapped == complex_data # <<>>

\* the records the call returned for a name
MappedAs(name) ==
    {k \in 1..Len(complex_data.returned) : complex_data.returned[k].variable = name}

\* the observation is a vital sign with an angle whose value is not a number
Malformed(item) ==
    /\ map_domain = "vitals"
    /\ item.name \in DOMAIN angle_mapping["vitals"]
    /\ ~item.value.isnum

\* C16: a malformed observation (a vital sign whose value is not a number)
\* is dropped, and the other observations of the domain are still mapped.
C16_MalformedDropped ==
    Mapped =>
        \A i \in 1..Len(map_variables) :
            IF Malformed(map_variables[i])
            THEN MappedAs(map_variables[i].name) = {}
            ELSE map_variables[i].name \in DOMAIN angle_mapping["vitals"]
                 /\ map_domain = "vitals"
                    => MappedAs(map_variables[i].name) # {}

\* clamp((value - min) / (max - min), 0, 1) for whole numbers
Clamped(value, min_val, max_val) ==
    IF value <= min_val THEN Zero
    ELSE IF value >= max_val THEN One
    ELSE Frac(value - min_val, max_val - min_val)

\* C17: for every numeric variable with a configured range the mapped
\* magnitude is clamp((value - min) / (max - min), 0, 1): 0 at and below
\* min, 1 at and above max, within [0, 1], and no smaller value gets a
\* larger magnitude.
C17_NormalizedAndClamped ==
    Mapped =>
        \A i \in 1..Len(map_variables) :
            LET item == map_variables[i]
            IN /\ map_domain \in DOMAIN normalization_ranges
               /\ item.name \in DOMAIN normalization_ranges[map_domain]
               /\ item.value.isnum
               => \A k \in MappedAs(item.name) :
                     LET magnitude == complex_data.returned[k].magnitude
                         range == normalization_ranges[map_domain][item.name]
                     IN /\ \E n \in MapNumbers :
                              /\ item.value = Number(n)
                              /\ magnitude = Clamped(n, range[1], range[2])
                        /\ FLe(Zero, magnitude) /\ FLe(magnitude, One)
                        /\ \A n \in MapNumbers :
                              FLe(Frac(n, 1), item.value.num) =>
                                  FLe(normalize_value(map_domain, item.name, Frac(n, 1)),
                                      magnitude)

\* a call that mapped a value above its range to 1 and a value inside its
\* range to a magnitude strictly between 0 and 1
C17_Witness ==
    /\ Mapped
    /\ \E i, j \in 1..Len(map_variables) :
          /\ map_variables[i] = [name |-> "heart_rate", value |-> Number(250)]
          /\ map_variables[j] = [name |-> "temperature", value |-> Number(38)]
          /\ \E k \in MappedAs("heart_rate") : complex_data.returned[k].magnitude = One
          /\ \E k \in MappedAs("temperature") :
                complex_data.returned[k].magnitude = Frac(3, 7)

\* C18: an observation whose name has no angle yet for the domain is given
\* a new angle and is part of the mapper's output; no observation is
\* dropped.
C18_UnknownNameMinted ==
    Mapped =>
        \A i \in 1..Len(map_variables) : MappedAs(map_variables[i].name) # {}

\* C19: every angle the table holds for a key of domain d lies in d's own
\* sector [base_d, base_d + 60 degrees), hence in [0, 360 degrees) and in no
\* other domain's sector, however many keys d has.
C19_SectorContainment ==
    \A k \in DOMAIN angle_map :
        /\ domain_base_angles[k[1]] <= angle_map[k]
        /\ angle_map[k] < domain_base_angles[k[1]] + SectorSize
        /\ 0 <= angle_map[k] /\ angle_map[k] < 360
        /\ \A domain \in DOMAIN domain_base_angles \ {k[1]} :
              ~(/\ domain_base_angles[domain] <= angle_map[k]
                /\ angle_map[k] < domain_base_angles[domain] + SectorSize)

\* no name occurs twice in a domain of the profile
UniqueNames(ref) ==
    \A domain \in DOMAIN complex_plane_data(ref) :
        \A i, j \in 1..Len(complex_plane_data(ref)[domain]) :
            i # j => complex_plane_data(ref)[domain][i].variable
                        # complex_plane_data(ref)[domain][j].variable

\* C20: reordering the variables inside a domain of the patient or of the
\* reference profile changes none of bayesian, kuramoto and markov.
C20_OrderIrrelevant ==
    Scored /\ UniqueNames(reference) =>
        \A pd \in DomainReorderings(patient_data) :
            \A cpd \in DomainReorderings(complex_plane_data(reference)) :
                LET ref == [icd10_code |-> reference.icd10_code,
                            complex_plane_data |-> cpd]
                IN /\ calculate_bayesian_probability(pd, ref) = pair_scores.bayesian
                   /\ calculate_kuramoto_synchronization(pd, ref) = pair_scores.kuramoto
                   /\ calculate_markov_probability(pd, ref) = pair_scores.markov

\* the names a domain's list carries
NamesOf(l) == {l[i].variable : i \in 1..Len(l)}

\* the patient variables that have no counterpart in the reference's domain
\* and are not yet in the patient's domain
UnmatchedPatientVars(domain) ==
    {v \in PatientVars :
        /\ v.variable \notin NamesOf(patient_data[domain])
        /\ domain \in DOMAIN complex_plane_data(reference)
              => v.variable \notin NamesOf(complex_plane_data(reference)[domain])}

\* the reference records that have no counterpart in the patient's domain
\* and are not yet in the reference's domain
UnmatchedRefVars(domain) ==
    {v \in RefVars :
        /\ v.variable \notin NamesOf(complex_plane_data(reference)[domain])
        /\ domain \in DOMAIN patient_data
              => v.variable \notin NamesOf(patient_data[domain])}

\* the three measures of a pair are the stored ones
SameMeasures(pd, ref) ==
    /\ calculate_bayesian_probability(pd, ref) = pair_scores.bayesian
    /\ calculate_kuramoto_synchronization(pd, ref) = pair_scores.kuramoto
    /\ calculate_markov_probability(pd, ref) = pair_scores.markov

\* C21: adding to the patient, or to the reference profile, a variable whose
\* name has no counterpart on the other side in that domain leaves bayesian,
\* kuramoto and markov unchanged.
C21_UnmatchedIgnored ==
    Scored =>
        /\ \A domain \in DOMAIN patient_data :
              \A v \in UnmatchedPatientVars(domain) :
                  SameMeasures([patient_data EXCEPT ![domain] = Append(@, v)],
                               reference)
        /\ \A domain \in DOMAIN complex_plane_data(reference) :
              \A v \in UnmatchedRefVars(domain) :
                  SameMeasures(patient_data,
                               [reference EXCEPT
                                   !.complex_plane_data[domain] = Append(@, v)])

\* the ordered chain of the six domains
six_domain_chain ==
    <<"subjective", "vitals", "examination", "laboratory", "imaging", "procedures">>

\* a domain holds records on the patient and on the reference side
Populated(domain) ==
    /\ domain \in DOMAIN patient_data
    /\ domain \in DOMAIN complex_plane_data(reference)
    /\ Len(patient_data[domain]) > 0
    /\ Len(complex_plane_data(reference)[domain]) > 0

\* the positions of the adjacent pairs of the chain populated on both sides
PairsPresent ==
    {i \in 1..(Len(six_domain_chain) - 1) :
        Populated(six_domain_chain[i]) /\ Populated(six_domain_chain[i + 1])}

\* the product of the two domain match scores of the pair at position i
PairProduct(i) ==
    FMul(domain_match_score(patient_data[six_domain_chain[i]],
                            complex_plane_data(reference)[six_domain_chain[i]]),
         domain_match_score(patient_data[six_domain_chain[i + 1]],
                            complex_plane_data(reference)[six_domain_chain[i + 1]]))

\* C22: the markov score is the mean, over the adjacent pairs of the
\* six-domain chain populated on both sides, of the product of the two domain
\* match scores; the divisor is the number of such pairs present.
C22_MarkovMeanOverPresentPairs ==
    Scored =>
        pair_scores.markov =
            IF PairsPresent = {} THEN Zero
            ELSE FDiv(FSum([i \in PairsPresent |-> PairProduct(i)], PairsPresent),
                      Frac(Cardinality(PairsPresent), 1))

(***************************************************************************)
(* Scoring pairs whose reference records may carry the weight 0.           *)
(***************************************************************************)
\* records per reference profile
MaxWeightVars == 2

\* stored reference records with `weight` 0.0
ZeroWeightVars ==
    {[variable |-> "temperature", angle |-> 0, magnitude |-> Frac(8, 10),
      weight |-> Zero],
     [variable |-> "respiratory_rate", angle |-> 240, magnitude |-> Frac(9, 10),
      weight |-> Zero]}

WeightedReferences ==
    {[icd10_code |-> 1, complex_plane_data |-> f] :
        f \in {g \in UNION {[D -> SeqsUpTo(RefVars \cup ZeroWeightVars, MaxWeightVars)] :
                               D \in SUBSET PairDomains} :
                  TotalLen(g, DOMAIN g) <= MaxWeightVars}}

InitWeight ==
    /\ IdleGetAngle /\ IdleAllocate /\ IdleBatch /\ IdleRank /\ IdleMap /\ IdleDiagnose
    /\ patient_data \in PatientDatas
    /\ reference \in WeightedReferences
    /\ pair_scores = <<>>
    /\ IdleBayes
    /\ IdleStore
    /\ IdlePubSub

SpecWeight == InitWeight /\ [][NextPair]_vars

\* no domain of the patient holds a name that the same domain of the
\* reference holds
NoSharedName ==
    \A domain \in DOMAIN patient_data \cap DOMAIN complex_plane_data(reference) :
        NamesOf(patient_data[domain])
            \cap NamesOf(complex_plane_data(reference)[domain]) = {}

\* the weights of the same-named pairs add up to zero
ZeroMatchedWeight ==
    FSum([t \in {u \in MatchedPairs_anyname(patient_data, reference) :
                    patient_data[u[1]][u[2]].variable
                        = complex_plane_data(reference)[u[1]][u[3]].variable} |->
             PairWeight(reference, t)],
         {u \in MatchedPairs_anyname(patient_data, reference) :
             patient_data[u[1]][u[2]].variable
                 = complex_plane_data(reference)[u[1]][u[3]].variable}) = Zero

\* C23: without a matched pair (no shared domain, no shared name, or total
\* matched weight zero) the bayesian score is exactly 0.0; the quotient
\* total_score / total_weight is taken only for a positive total_weight.
C23_NoMatchIsZero ==
    Scored /\ (NoSharedName \/ ZeroMatchedWeight) =>
        /\ pair_scores.bayesian = Zero
        /\ ~FLt(Zero, total_weight(patient_data, reference))

\* a scored pair with same-named records whose weights are all 0
C23_Witness ==
    Scored /\ ZeroMatchedWeight /\ ~NoSharedName

(***************************************************************************)
(* BayesianAnalyzer of medical-diagnostic-system.py.  A feature vector is  *)
(* a tuple of the complex numbers value * exp(i * angle); the vectors      *)
(* drawn have the angles 0 and pi, so their components are integers, and   *)
(* integer norms, so that the cosine similarity is an exact fraction.      *)
(***************************************************************************)
\* diseases per library
MaxDiseases == 3

\* the feature vectors drawn: norms 0, 3, 4 and 5
FeatureVectors ==
    {<<0, 0>>, <<3, 0>>, <<0, 4>>, <<3, 4>>, <<4, 3>>, <<-3, 4>>, <<4, -3>>}

\* np.sum(patient_vector * np.conj(disease_vector))
dot_product(patient_v, disease_v) ==
    patient_v[1] * disease_v[1] + patient_v[2] * disease_v[2]

\* np.linalg.norm(vector)
norm(vector) ==
    CHOOSE n \in 0..5 : n * n = vector[1] * vector[1] + vector[2] * vector[2]

\* BayesianAnalyzer.calculate_likelihood(patient_vector, disease_vector)
calculate_likelihood(patient_v, disease_v) ==
    IF norm(patient_v) = 0 \/ norm(disease_v) = 0 THEN Zero
    ELSE Frac(Abs(dot_product(patient_v, disease_v)),
              norm(patient_v) * norm(disease_v))

\* the icd10_code values of a library
CodesOf(library) == {library[i].icd10_code : i \in 1..Len(library)}

\* the last disease of the library that carries the code: a later dictionary
\* entry replaces an earlier one
LastOf(library, code) ==
    library[CHOOSE i \in 1..Len(library) :
                /\ library[i].icd10_code = code
                /\ \A j \in 1..Len(library) : library[j].icd10_code = code => j <= i]

\* priors that are not divided by the number of diseases
calculate_priors_unnormalised(library) ==
    [code \in CodesOf(library) |-> One]

\* BayesianAnalyzer._calculate_priors()
calculate_priors(library) ==
    [code \in CodesOf(library) |-> Frac(1, Len(library))]

\* the likelihoods dictionary of get_posterior_probabilities
likelihoods(library, patient_v) ==
    [code \in CodesOf(library) |->
        calculate_likelihood(patient_v, LastOf(library, code).reference_vector)]

\* evidence = sum(likelihoods[code] * prior_probabilities[code] ...)
evidence(library, priors, patient_v) ==
    FSum([code \in CodesOf(library) |->
             FMul(likelihoods(library, patient_v)[code], priors[code])],
         CodesOf(library))

\* BayesianAnalyzer.get_posterior_probabilities(patient_encounter)
get_posterior_probabilities(library, priors, patient_v) ==
    [code \in CodesOf(library) |->
        IF FLt(Zero, evidence(library, priors, patient_v))
        THEN FDiv(FMul(likelihoods(library, patient_v)[code], priors[code]),
                  evidence(library, priors, patient_v))
        ELSE Zero]

\* the libraries drawn: diseases 1..n, each with a reference vector
DiseaseLibraries ==
    UNION {{[i \in 1..n |-> [icd10_code |-> i, reference_vector |-> f[i]]] :
               f \in [1..n -> FeatureVectors]} : n \in 0..MaxDiseases}

InitPosterior ==
    /\ IdleGetAngle /\ IdleAllocate /\ IdleBatch /\ IdlePair /\ IdleRank /\ IdleMap
    /\ IdleDiagnose
    /\ ba_library \in DiseaseLibraries
    /\ ba_analyzer = <<>>
    /\ patient_vector \in FeatureVectors
    /\ posteriors = <<>>
    /\ IdleStore
    /\ IdlePubSub

\* BayesianAnalyzer.__init__(disease_library)
NewBayesianAnalyzer ==
    /\ ba_analyzer = <<>>
    /\ ba_analyzer' = [disease_library |-> ba_library,
                       prior_probabilities |-> calculate_priors(ba_library)]
    /\ UNCHANGED <<psVars, storeVars, tableVars, callVars, aaVars, batchVars, pairVars, rankVars, mapVars,
                   mdVars, ba_library, patient_vector, posteriors>>

GetPosteriorProbabilities ==
    /\ ba_analyzer # <<>>
    /\ posteriors = <<>>
    /\ posteriors' = [returned |->
                         get_posterior_probabilities(ba_analyzer.disease_library,
                                                     ba_analyzer.prior_probabilities,
                                                     patient_vector)]
    /\ UNCHANGED <<psVars, storeVars, tableVars, callVars, aaVars, batchVars, pairVars, rankVars, mapVars,
                   mdVars, ba_library, ba_analyzer, patient_vector>>

NextPosterior == NewBayesianAnalyzer \/ GetPosteriorProbabilities

SpecPosterior == InitPosterior /\ [][NextPosterior]_vars

\* the likelihood of a disease of the analyzer's library
LikelihoodOf(code) ==
    calculate_likelihood(patient_vector,
                         LastOf(ba_analyzer.disease_library, code).reference_vector)

\* C24: with N candidate diseases every candidate has the prior 1/N and the
\* posterior likelihood * prior / sum of likelihood * prior; the posteriors
\* sum to 1 when some likelihood is positive and are all 0 when every
\* likelihood is 0.
C24_UniformPriorPosterior ==
    posteriors # <<>> =>
        LET library == ba_analyzer.disease_library
            codes == CodesOf(library)
            total == FSum([code \in codes |->
                              FMul(LikelihoodOf(code), Frac(1, Len(library)))], codes)
        IN /\ DOMAIN posteriors.returned = codes
           /\ \A code \in codes :
                 ba_analyzer.prior_probabilities[code] = Frac(1, Len(library))
           /\ (\E code \in codes : FLt(Zero, LikelihoodOf(code))) =>
                 /\ \A code \in codes :
                       posteriors.returned[code] =
                           FDiv(FMul(LikelihoodOf(code), Frac(1, Len(library))), total)
                 /\ FSum(posteriors.returned, codes) = One
           /\ (\A code \in codes : LikelihoodOf(code) = Zero) =>
                 \A code \in codes : posteriors.returned[code] = Zero

\* posteriors of a library with a candidate of likelihood 0 and two of
\* different positive likelihoods
C24_Witness ==
    /\ posteriors # <<>>
    /\ \E a, b, c \in CodesOf(ba_analyzer.disease_library) :
          /\ LikelihoodOf(a) = Zero
          /\ FLt(Zero, LikelihoodOf(b))
          /\ FLt(LikelihoodOf(b), LikelihoodOf(c))

\* the call maps the vitals and heart_rate = 110 is among them
HeartRate110Mapped ==
    /\ Mapped
    /\ map_domain = "vitals"
    /\ \E i \in 1..Len(map_variables) :
          map_variables[i] = [name |-> "heart_rate", value |-> Number(110)]

\* C25 as stated: with the heart_rate range (40, 200) the mapper gives the
\* value 110 the magnitude 0.5.
C25_HeartRate110IsHalf ==
    HeartRate110Mapped =>
        /\ normalization_ranges["vitals"]["heart_rate"] = <<40, 200>>
        /\ \A k \in MappedAs("heart_rate") :
              complex_data.returned[k].magnitude = Frac(1, 2)

\* C25, amended: with the heart_rate range (40, 200) the mapper gives the
\* value 110 the magnitude (110 - 40) / (200 - 40) = 0.4375.
C25_HeartRate110Magnitude ==
    HeartRate110Mapped =>
        /\ normalization_ranges["vitals"]["heart_rate"] = <<40, 200>>
        /\ MappedAs("heart_rate") # {}
        /\ \A k \in MappedAs("heart_rate") :
              complex_data.returned[k].magnitude = Frac(7, 16)

\* heart_rate = 110 was mapped together with another vital sign
C25_Witness ==
    HeartRate110Mapped /\ Len(complex_data.returned) = 2

\* C26: the combined score of a candidate is the weighted sum of its three
\* component scores with the weights (0.4, 0.3, 0.3).
C26_CombinedIsWeightedSum ==
    Scored =>
        /\ SameMeasures(patient_data, reference)
        /\ pair_scores.combined =
              FAdd(FMul(Frac(4, 10), pair_scores.bayesian),
                   FAdd(FMul(Frac(3, 10), pair_scores.kuramoto),
                        FMul(Frac(3, 10), pair_scores.markov)))

\* a scored candidate whose three component scores are positive and differ
C26_Witness ==
    /\ Scored
    /\ FLt(Zero, pair_scores.markov)
    /\ FLt(pair_scores.markov, pair_scores.kuramoto)
    /\ FLt(pair_scores.kuramoto, pair_scores.bayesian)

\* the identifiers the returned list holds
ReturnedCodes == {analysis.diagnoses[i].icd10_code : i \in 1..Len(analysis.diagnoses)}

\* the positions of the library whose candidates were left out of the list
LeftOut == {k \in 1..Len(reference_library) :
               reference_library[k].icd10_code \notin ReturnedCodes}

\* the combined score of the candidate at position k of the library
CombinedOf(k) ==
    profile_scores(analysis.patient_complex_data,
                   reference_library[k].icd10_code,
                   reference_library[k].profile).combined

\* C27: every candidate of the returned list has a combined score greater
\* than or equal to that of every candidate that was left out.
C27_TruncationKeepsTop ==
    Analysed =>
        \A i \in 1..Len(analysis.diagnoses) :
            \A k \in LeftOut : FLe(CombinedOf(k), analysis.diagnoses[i].combined)

\* an analysis that left out a candidate with a positive score below the
\* first one's, the library holding it before a returned candidate
C27_Witness ==
    /\ Analysed
    /\ \E k \in LeftOut :
          /\ FLt(Zero, CombinedOf(k))
          /\ FLt(CombinedOf(k), analysis.diagnoses[1].combined)
          /\ \E l \in 1..Len(reference_library) : k < l /\ l \notin LeftOut

\* the keys of the table that were allocated under a domain key
KeysOfDomainKey(dk) ==
    {k \in DOMAIN angle_map : DomainKey(k[1], k[2]) = dk}

\* C28: when the tasks of a batch call get_angle for different previously
\* unseen keys of the same (domain, subdomain), the keys end up with
\* pairwise different angles and every new key has advanced the offset of
\* its (domain, subdomain) by one increment.
C28_NoLostIncrement ==
    /\ \A k1, k2 \in DOMAIN angle_map :
          k1 # k2 /\ DomainKey(k1[1], k1[2]) = DomainKey(k2[1], k2[2])
              => angle_map[k1] # angle_map[k2]
    /\ \A dk \in DOMAIN subdomain_offsets :
          subdomain_offsets[dk] = AngleIncrement * Cardinality(KeysOfDomainKey(dk))
    /\ \A k \in DOMAIN angle_map : DomainKey(k[1], k[2]) \in DOMAIN subdomain_offsets

\* all tasks of the batch were suspended together, and two of them have
\* allocated different vital signs that no task before them had asked for
C28_Witness ==
    /\ \A r \in Records : task_pc[r] = "done"
    /\ \E r1, r2 \in Records :
          /\ vitals_data[r1] # {} /\ vitals_data[r2] # {}
          /\ vitals_data[r1] \cap vitals_data[r2] = {}
          /\ \A r \in Records \ {r1, r2} : vitals_data[r] = {}
    /\ Cardinality(KeysOfDomainKey(<<"vitals">>)) = MaxVitals

(***************************************************************************)
(* ProcessAOrchestrator.process_batch with the outcomes of its tasks and   *)
(* of the Firestore writes.  A record of the batch either carries the key  *)
(* 'CODE' or not; its processing returns an expanded record or raises.     *)
(***************************************************************************)
\* records of the batch whose storing is followed
MaxBatch == 3

\* the ICD records drawn: with or without the key 'CODE', and whether the
\* literature data of the record makes extract_expected_values raise.  With
\* no 'CODE', icd_code is '' and query_uptodate_simulator raises IndexError
\* at icd_code[0].
IcdRecords ==
    {rec \in [has_code : BOOLEAN, bad_data : BOOLEAN] : ~rec.has_code => rec.bad_data}

Batches == UNION {[1..n -> IcdRecords] : n \in 1..MaxBatch}

InitStore ==
    /\ IdleGetAngle /\ IdleAllocate /\ IdleBatch /\ IdlePair /\ IdleRank /\ IdleMap
    /\ IdleDiagnose /\ IdleBayes
    /\ pb_batch \in Batches
    /\ pb_tasks = [r \in DOMAIN pb_batch |-> "created"]
    /\ pb_results = <<>>
    /\ pb_i = 0
    /\ pb_pc = "gathering"
    /\ firestore_docs = [r \in DOMAIN pb_batch |-> 0]
    /\ IdlePubSub

\* process_single_icd up to the await of extract_expected_values
PB_StartTask(r) ==
    /\ pb_pc = "gathering"
    /\ pb_tasks[r] = "created"
    /\ pb_tasks' = [pb_tasks EXCEPT ![r] = "querying"]
    /\ UNCHANGED <<psVars, tableVars, callVars, aaVars, batchVars, pairVars, rankVars, mapVars,
                   mdVars, baVars, pb_batch, pb_results, pb_i, pb_pc, firestore_docs>>

\* process_single_icd from the await on: it returns the expanded record or
\* an exception leaves it
PB_FinishTask(r) ==
    /\ pb_pc = "gathering"
    /\ pb_tasks[r] = "querying"
    /\ pb_tasks' = [pb_tasks EXCEPT
                       ![r] = IF pb_batch[r].bad_data THEN "raised" ELSE "returned"]
    /\ UNCHANGED <<psVars, tableVars, callVars, aaVars, batchVars, pairVars, rankVars, mapVars,
                   mdVars, baVars, pb_batch, pb_results, pb_i, pb_pc, firestore_docs>>

\* results = await asyncio.gather(*tasks, return_exceptions=True)
PB_Gather ==
    /\ pb_pc = "gathering"
    /\ \A r \in DOMAIN pb_tasks : pb_tasks[r] \in {"returned", "raised"}
    /\ pb_results' = [r \in DOMAIN pb_tasks |->
                         IF pb_tasks[r] = "raised" THEN "Exception" ELSE "record"]
    /\ pb_i' = 1
    /\ pb_pc' = "storing"
    /\ UNCHANGED <<psVars, tableVars, callVars, aaVars, batchVars, pairVars, rankVars, mapVars,
                   mdVars, baVars, pb_batch, pb_tasks, firestore_docs>>

\* one turn of `for i, result in enumerate(results)` for an exception:
\* logger.error(f"Error processing {batch[i]['CODE']}: {result}"), where
\* batch[i]['CODE'] raises KeyError for a record without the key
PB_LogError ==
    /\ pb_pc = "storing"
    /\ pb_i <= Len(pb_results)
    /\ pb_results[pb_i] = "Exception"
    /\ IF pb_batch[pb_i].has_code
       THEN pb_i' = pb_i + 1 /\ pb_pc' = pb_pc
       ELSE pb_i' = pb_i /\ pb_pc' = "raised"
    /\ UNCHANGED <<psVars, tableVars, callVars, aaVars, batchVars, pairVars, rankVars, mapVars,
                   mdVars, baVars, pb_batch, pb_tasks, pb_results, firestore_docs>>

\* one turn of the loop for a record: await self.store_expanded_record(result),
\* whose doc_ref.set(record) writes the document or raises; store_expanded_record
\* logs what it raises and returns
PB_StoreExpandedRecord(written) ==
    /\ pb_pc = "storing"
    /\ pb_i <= Len(pb_results)
    /\ pb_results[pb_i] = "record"
    /\ firestore_docs' = [firestore_docs EXCEPT
                             ![pb_i] = IF written THEN @ + 1 ELSE @]
    /\ pb_i' = pb_i + 1
    /\ UNCHANGED <<psVars, tableVars, callVars, aaVars, batchVars, pairVars, rankVars, mapVars,
                   mdVars, baVars, pb_batch, pb_tasks, pb_results, pb_pc>>

\* the loop is exhausted: process_batch returns
PB_Return ==
    /\ pb_pc = "storing"
    /\ pb_i > Len(pb_results)
    /\ pb_pc' = "returned"
    /\ UNCHANGED <<psVars, tableVars, callVars, aaVars, batchVars, pairVars, rankVars, mapVars,
                   mdVars, baVars, pb_batch, pb_tasks, pb_results, pb_i, firestore_docs>>

NextStore ==
    \/ \E r \in DOMAIN pb_batch : PB_StartTask(r)
    \/ \E r \in DOMAIN pb_batch : PB_FinishTask(r)
    \/ PB_Gather
    \/ PB_LogError
    \/ \E written \in BOOLEAN : PB_StoreExpandedRecord(written)
    \/ PB_Return

SpecStore == InitStore /\ [][NextStore]_vars

\* process_batch has returned or an exception has left it
BatchOver == pb_pc \in {"returned", "raised"}

\* C29: a failure while processing one record does not stop the batch: when
\* process_batch is over, every record whose processing succeeded is stored
\* exactly once and no record whose processing raised is stored.
C29_SucceededStoredOnce ==
    BatchOver =>
        \A r \in DOMAIN pb_batch :
            /\ pb_tasks[r] = "returned" => firestore_docs[r] = 1
            /\ pb_tasks[r] = "raised" => firestore_docs[r] = 0

(***************************************************************************)
(* process_pubsub_message of api-backend.py, the callback for the messages *)
(* of the topic diagnosis-requests.  Each statement that calls Firestore,  *)
(* Socket.IO or the diagnostic engine returns or raises; an exception      *)
(* anywhere in the try block is caught by the one handler, which logs it   *)
(* and calls message.nack().  Callbacks of different messages interleave.  *)
(***************************************************************************)
\* messages delivered
MaxMessages == 2

\* the encounter identifiers the messages name; diagnose_async has stored
\* each encounter with the status 'queued' before it published the message
EncounterIds == {1, 2}

PubSubMessages ==
    [1..MaxMessages -> [encounter_id : EncounterIds, decodes : BOOLEAN]]

\* the handler without message.nack()
nack_dropped(nacks, m) == nacks

\* message.nack() of the exception handler
nack(nacks, m) == [nacks EXCEPT ![m] = @ + 1]

\* except Exception as e: logger.error(...); message.nack()
Except(m, step) ==
    /\ ps_pc' = [ps_pc EXCEPT ![m] = "returned"]
    /\ ps_raised' = [ps_raised EXCEPT ![m] = step]
    /\ ps_nacks' = nack(ps_nacks, m)

InitPubSub ==
    /\ IdleGetAngle /\ IdleAllocate /\ IdleBatch /\ IdlePair /\ IdleRank /\ IdleMap
    /\ IdleDiagnose /\ IdleBayes /\ IdleStore
    /\ ps_messages \in PubSubMessages
    /\ ps_pc = [m \in 1..MaxMessages |-> "decode"]
    /\ ps_raised = [m \in 1..MaxMessages |-> ""]
    /\ ps_completed = [m \in 1..MaxMessages |-> FALSE]
    /\ ps_acks = [m \in 1..MaxMessages |-> 0]
    /\ ps_nacks = [m \in 1..MaxMessages |-> 0]
    /\ encounter_docs = [e \in EncounterIds |-> [status |-> "queued", results |-> 0]]

\* message_data = json.loads(...); encounter_id = ...; patient_data = ...
Decode(m) ==
    /\ ps_pc[m] = "decode"
    /\ IF ps_messages[m].decodes
       THEN /\ ps_pc' = [ps_pc EXCEPT ![m] = "update_processing"]
            /\ UNCHANGED <<ps_raised, ps_nacks>>
       ELSE Except(m, "decode")
    /\ UNCHANGED <<tableVars, callVars, aaVars, batchVars, pairVars, rankVars, mapVars,
                   mdVars, baVars, storeVars, ps_messages, ps_completed, ps_acks,
                   encounter_docs>>

\* encounter_ref.update({'status': 'processing'})
UpdateProcessing(m, raises) ==
    /\ ps_pc[m] = "update_processing"
    /\ IF raises
       THEN Except(m, "update_processing") /\ UNCHANGED encounter_docs
       ELSE /\ encounter_docs' = [encounter_docs EXCEPT
                                    ![ps_messages[m].encounter_id].status = "processing"]
            /\ ps_pc' = [ps_pc EXCEPT ![m] = "emit_status"]
            /\ UNCHANGED <<ps_raised, ps_nacks>>
    /\ UNCHANGED <<tableVars, callVars, aaVars, batchVars, pairVars, rankVars, mapVars,
                   mdVars, baVars, storeVars, ps_messages, ps_completed, ps_acks>>

\* socketio.emit('status_update', ...)
EmitStatusUpdate(m, raises) ==
    /\ ps_pc[m] = "emit_status"
    /\ IF raises
       THEN Except(m, "emit_status")
       ELSE /\ ps_pc' = [ps_pc EXCEPT ![m] = "process_diagnosis"]
            /\ UNCHANGED <<ps_raised, ps_nacks>>
    /\ UNCHANGED <<tableVars, callVars, aaVars, batchVars, pairVars, rankVars, mapVars,
                   mdVars, baVars, storeVars, ps_messages, ps_completed, ps_acks,
                   encounter_docs>>

\* results = process_diagnosis(patient_data, encounter_id), which logs and
\* re-raises whatever the engine or Firestore raises
ProcessDiagnosis(m, raises) ==
    /\ ps_pc[m] = "process_diagnosis"
    /\ IF raises
       THEN Except(m, "process_diagnosis")
       ELSE /\ ps_pc' = [ps_pc EXCEPT ![m] = "update_completed"]
            /\ UNCHANGED <<ps_raised, ps_nacks>>
    /\ UNCHANGED <<tableVars, callVars, aaVars, batchVars, pairVars, rankVars, mapVars,
                   mdVars, baVars, storeVars, ps_messages, ps_completed, ps_acks,
                   encounter_docs>>

\* encounter_ref.update({'status': 'completed', 'results': results, ...})
UpdateCompleted(m, raises) ==
    /\ ps_pc[m] = "update_completed"
    /\ IF raises
       THEN Except(m, "update_completed") /\ UNCHANGED <<encounter_docs, ps_completed>>
       ELSE /\ encounter_docs' = [encounter_docs EXCEPT
                                    ![ps_messages[m].encounter_id] =
                                        [status |-> "completed", results |-> m]]
            /\ ps_completed' = [ps_completed EXCEPT ![m] = TRUE]
            /\ ps_pc' = [ps_pc EXCEPT ![m] = "emit_complete"]
            /\ UNCHANGED <<ps_raised, ps_nacks>>
    /\ UNCHANGED <<tableVars, callVars, aaVars, batchVars, pairVars, rankVars, mapVars,
                   mdVars, baVars, storeVars, ps_messages, ps_acks>>

\* socketio.emit('diagnosis_complete', ...)
EmitDiagnosisComplete(m, raises) ==
    /\ ps_pc[m] = "emit_complete"
    /\ IF raises
       THEN Except(m, "emit_complete")
       ELSE /\ ps_pc' = [ps_pc EXCEPT ![m] = "ack"]
            /\ UNCHANGED <<ps_raised, ps_nacks>>
    /\ UNCHANGED <<tableVars, callVars, aaVars, batchVars, pairVars, rankVars, mapVars,
                   mdVars, baVars, storeVars, ps_messages, ps_completed, ps_acks,
                   encounter_docs>>

\* message.ack(), the last statement of the try block
Ack(m) ==
    /\ ps_pc[m] = "ack"
    /\ ps_acks' = [ps_acks EXCEPT ![m] = @ + 1]
    /\ ps_pc' = [ps_pc EXCEPT ![m] = "returned"]
    /\ UNCHANGED <<tableVars, callVars, aaVars, batchVars, pairVars, rankVars, mapVars,
                   mdVars, baVars, storeVars, ps_messages, ps_raised, ps_completed,
                   ps_nacks, encounter_docs>>

NextPubSub ==
    \E m \in 1..MaxMessages :
        \/ Decode(m)
        \/ \E raises \in BOOLEAN : UpdateProcessing(m, raises)
        \/ \E raises \in BOOLEAN : EmitStatusUpdate(m, raises)
        \/ \E raises \in BOOLEAN : ProcessDiagnosis(m, raises)
        \/ \E raises \in BOOLEAN : UpdateCompleted(m, raises)
        \/ \E raises \in BOOLEAN : EmitDiagnosisComplete(m, raises)
        \/ Ack(m)

SpecPubSub == InitPubSub /\ [][NextPubSub]_vars

\* the steps of the handler that come before the update to 'completed' is applied
StepsBeforeCompleted ==
    {"decode", "update_processing", "emit_status", "process_diagnosis",
     "update_completed"}

\* C30: a message is acknowledged or negatively acknowledged, never both
\* and at most once, and one of the two once its handler has returned; it is
\* acknowledged only after the handler has updated the encounter to
\* 'completed' with its results; it is negatively acknowledged whenever a
\* step raises, and when a step before that update raises the handler never
\* marks the encounter 'completed'.
C30_AckXorNack ==
    \A m \in DOMAIN ps_messages :
        /\ ps_acks[m] + ps_nacks[m] <= 1
        /\ ps_pc[m] = "returned" => ps_acks[m] + ps_nacks[m] = 1
        /\ ps_acks[m] = 1 => ps_completed[m] /\ ps_raised[m] = ""
        /\ ps_raised[m] # "" => ps_nacks[m] = 1 /\ ps_pc[m] = "returned"
        /\ ps_raised[m] \in StepsBeforeCompleted => ~ps_completed[m]
        /\ encounter_docs[ps_messages[m].encounter_id].status = "completed"
              => encounter_docs[ps_messages[m].encounter_id].results # 0

\* one message acknowledged after its update, another one for the same
\* encounter negatively acknowledged because process_diagnosis raised
C30_Witness ==
    \E m1, m2 \in DOMAIN ps_messages :
        /\ ps_acks[m1] = 1 /\ ps_completed[m1]
        /\ ps_nacks[m2] = 1 /\ ps_raised[m2] = "process_diagnosis"
        /\ ps_messages[m1].encounter_id = ps_messages[m2].encounter_id

====
